---------------------------- MODULE Spec2Model ----------------------------
(***************************************************************************)
(* DBMS_ASSERT of orafce (assert.c): the identifier parser                 *)
(* ParseIdentifierString, the simple-name validator check_sql_name and the *)
(* four guarded entry points qualified_sql_name, simple_sql_name,          *)
(* schema_name and object_name.                                            *)
(*                                                                         *)
(* A run is one fmgr call: the caller picks an entry point and an          *)
(* argument, the handler runs to its PG_RETURN or its ereport(ERROR), and  *)
(* the state records the outcome together with what the handler touched on *)
(* the way (collaborators called, bytes read, the scratch C string).       *)
(***************************************************************************)
EXTENDS Integers, Sequences, FiniteSets

(***************************************************************************)
(* Bounds of the model.                                                    *)
(***************************************************************************)
\* longest argument handed to qualified_sql_name and simple_sql_name
MaxLen == 5
\* longest argument handed to schema_name and object_name
MaxCatLen == 3
\* longest name list the host's stringToQualifiedNameList hands back
MaxParts == 3

(***************************************************************************)
(* Bytes.  One representative per class the code tells apart: a letter or  *)
(* digit, the underscore, the double quote, the dot, white space, and any  *)
(* other ASCII punctuation.  All bytes are ASCII (< 0x80), where isalnum   *)
(* and isspace are defined for a plain char and do not depend on locale.   *)
(***************************************************************************)
DQ == "\""
DOT == "."
NUL == "NUL"
Char == {"a", "_", DQ, DOT, " ", "-"}

isspace(c) == c = " "
isalnum(c) == c = "a"

\* all byte strings of length 0 .. n
Strings(n) == UNION {[1..k -> Char] : k \in 0..n}

(***************************************************************************)
(* C strings.  A buffer is the sequence of bytes before the terminating    *)
(* NUL; positions are 1-based, and position Len+1 holds the NUL.           *)
(***************************************************************************)
At(b, i) == IF i <= Len(b) THEN b[i] ELSE NUL

\* strchr(b + from, c): position of the first c at or after from, 0 for NULL
strchr(b, from, c) ==
    LET hits == {j \in from..Len(b) : b[j] = c}
    IN  IF hits = {} THEN 0 ELSE CHOOSE j \in hits : \A k \in hits : j <= k

\* memmove(endp, endp + 1, strlen(endp)): the byte at endp is overwritten by
\* the rest of the string, terminator included
memmove(b, endp) == SubSeq(b, 1, endp - 1) \o SubSeq(b, endp + 1, Len(b))

\* while (isspace(*nextp)) nextp++;
RECURSIVE SkipSpace(_, _)
SkipSpace(b, nextp) ==
    IF isspace(At(b, nextp)) THEN SkipSpace(b, nextp + 1) ELSE nextp

(***************************************************************************)
(* ParseIdentifierString                                                   *)
(***************************************************************************)
\* the character test of an unquoted name: isalnum(*nextp) || *nextp == '_'
ident_char_no_underscore(c) == isalnum(c)

ident_char(c) == isalnum(c) \/ c = "_"

\* the for (;;) of a quoted name, entered with nextp at a quote; it collapses
\* quote-quote pairs in the buffer until it finds the terminating quote
RECURSIVE QuotedName(_, _)
QuotedName(b, nextp) ==
    LET endp == strchr(b, nextp + 1, DQ)
    IN  IF endp = 0
        THEN [ok |-> FALSE, buf |-> b, endp |-> 0]
        ELSE IF At(b, endp + 1) # DQ
        THEN [ok |-> TRUE, buf |-> b, endp |-> endp]
        ELSE QuotedName(memmove(b, endp), endp)

\* the while loop of an unquoted name: it stops at NUL, '.' or white space
\* and fails on any other byte that is not alphanumeric or '_'
RECURSIVE UnquotedName(_, _)
UnquotedName(b, nextp) ==
    LET c == At(b, nextp)
    IN  IF c # NUL /\ c # DOT /\ ~isspace(c)
        THEN IF ~ident_char(c)
             THEN [ok |-> FALSE, endp |-> nextp]
             ELSE UnquotedName(b, nextp + 1)
        ELSE [ok |-> TRUE, endp |-> nextp]

\* what follows a name: trailing white space, then '.', NUL or a syntax error
AfterName(b, nextp0) ==
    LET nextp == SkipSpace(b, nextp0)
    IN  IF At(b, nextp) = DOT
        THEN [ok |-> TRUE, done |-> FALSE, nextp |-> SkipSpace(b, nextp + 1)]
        ELSE IF At(b, nextp) = NUL
        THEN [ok |-> TRUE, done |-> TRUE, nextp |-> nextp]
        ELSE [ok |-> FALSE, done |-> FALSE, nextp |-> nextp]

\* the do .. while (!done) loop, entered at the start of a new identifier.
\* names collects, per identifier, the bytes between curname and endp.
RECURSIVE IdentifierLoop(_, _, _)
IdentifierLoop(b, nextp, names) ==
    IF At(b, nextp) = DQ
    THEN LET q == QuotedName(b, nextp)
         IN  IF ~q.ok
             THEN [ok |-> FALSE, buf |-> q.buf, names |-> names]
             ELSE LET curname == nextp + 1
                      got == Append(names,
                                [text |-> SubSeq(q.buf, curname, q.endp - 1),
                                 quoted |-> TRUE])
                      a == AfterName(q.buf, q.endp + 1)
                  IN  IF ~a.ok
                      THEN [ok |-> FALSE, buf |-> q.buf, names |-> got]
                      ELSE IF a.done
                      THEN [ok |-> TRUE, buf |-> q.buf, names |-> got]
                      ELSE IdentifierLoop(q.buf, a.nextp, got)
    ELSE LET u == UnquotedName(b, nextp)
         IN  IF ~u.ok \/ u.endp = nextp
             THEN [ok |-> FALSE, buf |-> b, names |-> names]
             ELSE LET got == Append(names,
                                [text |-> SubSeq(b, nextp, u.endp - 1),
                                 quoted |-> FALSE])
                      a == AfterName(b, u.endp)
                  IN  IF ~a.ok
                      THEN [ok |-> FALSE, buf |-> b, names |-> got]
                      ELSE IF a.done
                      THEN [ok |-> TRUE, buf |-> b, names |-> got]
                      ELSE IdentifierLoop(b, a.nextp, got)

\* ok: the bool returned; buf: rawstring as the call leaves it; names: the
\* identifiers it delimited
ParseIdentifierString(rawstring) ==
    LET nextp == SkipSpace(rawstring, 1)
    IN  IF At(rawstring, nextp) = NUL
        THEN [ok |-> TRUE, buf |-> rawstring, names |-> <<>>]
        ELSE IdentifierLoop(rawstring, nextp, <<>>)

(***************************************************************************)
(* check_sql_name.  cp is an offset into mem, the bytes at VARDATA(sname)  *)
(* onwards: the len bytes of the value followed by whatever lies behind    *)
(* them (a varlena is not NUL-terminated).  reads collects the offsets     *)
(* dereferenced.                                                           *)
(***************************************************************************)
Byte(mem, cp) == mem[cp + 1]

\* the character test of the unquoted branch: isalnum(*cp) || *cp == '_'
sql_name_char_no_underscore(c) == isalnum(c)

sql_name_char(c) == isalnum(c) \/ c = "_"

\* for (cp++, len -= 2; len-- > 0; cp++) { ... } if (*cp != '"') return false;
\* taken up at the loop test
RECURSIVE QuotedCheck(_, _, _, _)
QuotedCheck(mem, cp, len, reads) ==
    IF len > 0
    THEN LET len1 == len - 1
             rd == reads \cup {cp}
         IN  IF Byte(mem, cp) = DQ
             THEN IF len1 = 0
                  THEN [ok |-> FALSE, reads |-> rd]
                  \* "next char has to be quote" tests *cp again, cp unmoved
                  ELSE IF Byte(mem, cp) # DQ
                  THEN [ok |-> FALSE, reads |-> rd]
                  ELSE QuotedCheck(mem, cp + 1, len1 - 1, rd)
             ELSE QuotedCheck(mem, cp + 1, len1, rd)
    ELSE [ok |-> Byte(mem, cp) = DQ, reads |-> reads \cup {cp}]

\* for (; len-- > 0; cp++) if (!isalnum(*cp) && *cp != '_') return false;
RECURSIVE UnquotedCheck(_, _, _, _)
UnquotedCheck(mem, cp, len, reads) ==
    IF len > 0
    THEN IF ~sql_name_char(Byte(mem, cp))
         THEN [ok |-> FALSE, reads |-> reads \cup {cp}]
         ELSE UnquotedCheck(mem, cp + 1, len - 1, reads \cup {cp})
    ELSE [ok |-> TRUE, reads |-> reads]

check_sql_name(mem, len) ==
    IF Byte(mem, 0) = DQ
    THEN QuotedCheck(mem, 1, len - 2, {0})
    ELSE UnquotedCheck(mem, 0, len, {0})

(***************************************************************************)
(* The fmgr interface and the collaborators of the host.                   *)
(***************************************************************************)
\* an SQL argument: NULL, or a text value with its bytes
NullArg == [isnull |-> TRUE, data |-> <<>>]
TextArg(s) == [isnull |-> FALSE, data |-> s]
Args(n) == {NullArg} \cup {TextArg(s) : s \in Strings(n)}

PG_ARGISNULL(a) == a.isnull

\* #define EMPTY_STR(str) ((VARSIZE(str) - VARHDRSZ) == 0)
EMPTY_STR_never(str) == FALSE

EMPTY_STR(str) == Len(str) = 0

\* how a call ends: PG_RETURN_TEXT_P(value) or ereport(ERROR, errcode(code))
NoResult == [kind |-> "none", code |-> "", value |-> <<>>]
Return(v) == [kind |-> "RETURN", code |-> "", value |-> v]
Error(code) == [kind |-> "ERROR", code |-> code, value |-> <<>>]

ISNOT_QUALIFIED_SQL_NAME_EXCEPTION == Error("ISNOT_QUALIFIED_SQL_NAME")
ISNOT_SIMPLE_SQL_NAME_EXCEPTION == Error("ISNOT_SIMPLE_SQL_NAME")
INVALID_SCHEMA_NAME_EXCEPTION == Error("INVALID_SCHEMA_NAME")
INVALID_OBJECT_NAME_EXCEPTION == Error("INVALID_OBJECT_NAME")
\* raised inside the host's stringToQualifiedNameList for a string it cannot
\* split; no handler of assert.c catches it
HostInvalidName == Error("INVALID_NAME")

\* memory of one call: the detoasted argument and the palloc'd C string
NoHeap == [datum |-> <<>>, cstring |-> <<>>]

\* text_to_cstring: palloc a fresh chunk, copy the bytes, terminate them
text_to_cstring_in_place(heap, t) == [heap |-> heap, ptr |-> t]

text_to_cstring(heap, t) ==
    [heap |-> [heap EXCEPT !["cstring"] = heap[t]], ptr |-> "cstring"]

\* aclresult != ACLCHECK_OK
AclRefused_never(aclresult) == FALSE

AclRefused(aclresult) == aclresult # "ACLCHECK_OK"

\* what the host may answer
NameListLengths == 1..MaxParts
Oids == {"InvalidOid", "Oid"}
AclResults == {"ACLCHECK_OK", "ACLCHECK_NO_PRIV"}
OidIsValid(oid) == oid # "InvalidOid"

(***************************************************************************)
(* State: the call and the locals of its handler as the call ends.         *)
(***************************************************************************)
VARIABLES
    fn,           \* the entry point called, "none" before the call
    arg,          \* its argument
    past,         \* the byte behind the argument's data in memory
    heap,         \* datum: the argument's bytes; cstring: text_to_cstring's copy
    calls,        \* the functions the handler called, in order
    names,        \* the identifiers ParseIdentifierString delimited
    reads,        \* the offsets check_sql_name dereferenced
    list_length,  \* list_length(names) in schema_name, -1 while unset
    namespaceId,  \* schema_name's local
    aclresult,    \* schema_name's local
    classId,      \* object_name's local
    result        \* how the call ended

vars == <<fn, arg, past, heap, calls, names, reads, list_length, namespaceId,
          aclresult, classId, result>>

Init ==
    /\ fn = "none"
    /\ arg = NullArg
    /\ past = NUL
    /\ heap = NoHeap
    /\ calls = <<>>
    /\ names = <<>>
    /\ reads = {}
    /\ list_length = -1
    /\ namespaceId = "unset"
    /\ aclresult = "unset"
    /\ classId = "unset"
    /\ result = NoResult

\* the locals a handler leaves untouched when it raises before reaching them
Untouched ==
    [heap |-> NoHeap, calls |-> <<>>, names |-> <<>>, reads |-> {},
     list_length |-> -1, namespaceId |-> "unset", aclresult |-> "unset",
     classId |-> "unset", result |-> NoResult]

Finish(f, a, p, out) ==
    /\ fn' = f
    /\ arg' = a
    /\ past' = p
    /\ heap' = out.heap
    /\ calls' = out.calls
    /\ names' = out.names
    /\ reads' = out.reads
    /\ list_length' = out.list_length
    /\ namespaceId' = out.namespaceId
    /\ aclresult' = out.aclresult
    /\ classId' = out.classId
    /\ result' = out.result

(***************************************************************************)
(* DBMS_ASSERT.QUALIFIED_SQL_NAME                                          *)
(***************************************************************************)
dbms_assert_qualified_sql_name(a) ==
    IF PG_ARGISNULL(a)
    THEN [Untouched EXCEPT !.result = ISNOT_QUALIFIED_SQL_NAME_EXCEPTION]
    ELSE LET h0 == [NoHeap EXCEPT !.datum = a.data]
         IN  IF EMPTY_STR(h0.datum)
             THEN [Untouched EXCEPT !.heap = h0,
                                    !.result = ISNOT_QUALIFIED_SQL_NAME_EXCEPTION]
             ELSE LET c == text_to_cstring(h0, "datum")
                      p == ParseIdentifierString(c.heap[c.ptr])
                      h1 == [c.heap EXCEPT ![c.ptr] = p.buf]
                  IN  [Untouched EXCEPT
                         !.heap = h1,
                         !.calls = <<"text_to_cstring", "ParseIdentifierString">>,
                         !.names = p.names,
                         !.result = IF ~p.ok
                                    THEN ISNOT_QUALIFIED_SQL_NAME_EXCEPTION
                                    ELSE Return(h1.datum)]

QualifiedSqlName ==
    /\ fn = "none"
    /\ \E a \in Args(MaxLen) :
          Finish("qualified_sql_name", a, NUL, dbms_assert_qualified_sql_name(a))

(***************************************************************************)
(* DBMS_ASSERT.SIMPLE_SQL_NAME                                             *)
(***************************************************************************)
dbms_assert_simple_sql_name(a, p) ==
    IF PG_ARGISNULL(a)
    THEN [Untouched EXCEPT !.result = ISNOT_SIMPLE_SQL_NAME_EXCEPTION]
    ELSE LET h0 == [NoHeap EXCEPT !.datum = a.data]
         IN  IF EMPTY_STR(h0.datum)
             THEN [Untouched EXCEPT !.heap = h0,
                                    !.result = ISNOT_SIMPLE_SQL_NAME_EXCEPTION]
             ELSE LET len == Len(h0.datum)
                      c == check_sql_name(h0.datum \o <<p>>, len)
                  IN  [Untouched EXCEPT
                         !.heap = h0,
                         !.calls = <<"check_sql_name">>,
                         !.reads = c.reads,
                         !.result = IF ~c.ok
                                    THEN ISNOT_SIMPLE_SQL_NAME_EXCEPTION
                                    ELSE Return(h0.datum)]

SimpleSqlName ==
    /\ fn = "none"
    /\ \E a \in Args(MaxLen), p \in Char :
          Finish("simple_sql_name", a, p, dbms_assert_simple_sql_name(a, p))

(***************************************************************************)
(* DBMS_ASSERT.SCHEMA_NAME.  n, oid and acl are the host's answers:        *)
(* n the length of the list stringToQualifiedNameList returns, 0 when it   *)
(* raises instead; oid what GetSysCacheOid finds; acl what                 *)
(* pg_namespace_aclcheck grants.                                           *)
(***************************************************************************)
dbms_assert_schema_name(a, n, oid, acl) ==
    IF PG_ARGISNULL(a)
    THEN [Untouched EXCEPT !.result = INVALID_SCHEMA_NAME_EXCEPTION]
    ELSE LET h0 == [NoHeap EXCEPT !.datum = a.data]
         IN  IF EMPTY_STR(h0.datum)
             THEN [Untouched EXCEPT !.heap = h0,
                                    !.result = INVALID_SCHEMA_NAME_EXCEPTION]
             ELSE LET c == text_to_cstring(h0, "datum")
                      parsed == [Untouched EXCEPT
                          !.heap = c.heap,
                          !.calls = <<"text_to_cstring", "stringToQualifiedNameList">>]
                  IN  IF n = 0
                      THEN [parsed EXCEPT !.result = HostInvalidName]
                      ELSE IF n # 1
                      THEN [parsed EXCEPT !.list_length = n,
                                          !.result = INVALID_SCHEMA_NAME_EXCEPTION]
                      ELSE LET looked == [parsed EXCEPT
                                  !.list_length = n,
                                  !.calls = Append(parsed.calls, "GetSysCacheOid"),
                                  !.namespaceId = oid]
                           IN  IF ~OidIsValid(oid)
                               THEN [looked EXCEPT
                                        !.result = INVALID_SCHEMA_NAME_EXCEPTION]
                               ELSE LET asked == [looked EXCEPT
                                           !.calls = Append(looked.calls,
                                                            "pg_namespace_aclcheck"),
                                           !.aclresult = acl]
                                    IN  IF AclRefused(acl)
                                        THEN [asked EXCEPT
                                                !.result = INVALID_SCHEMA_NAME_EXCEPTION]
                                        ELSE [asked EXCEPT
                                                !.result = Return(asked.heap.datum)]

SchemaName ==
    /\ fn = "none"
    /\ \E a \in Args(MaxCatLen), n \in {0} \cup NameListLengths,
          oid \in Oids, acl \in AclResults :
          Finish("schema_name", a, NUL, dbms_assert_schema_name(a, n, oid, acl))

(***************************************************************************)
(* DBMS_ASSERT.OBJECT_NAME.  listed: stringToQualifiedNameList and         *)
(* makeRangeVarFromNameList hand back a range variable (they raise         *)
(* otherwise); oid: what RangeVarGetRelid(.., true) finds.                 *)
(***************************************************************************)
dbms_assert_object_name(a, listed, oid) ==
    IF PG_ARGISNULL(a)
    THEN [Untouched EXCEPT !.result = INVALID_OBJECT_NAME_EXCEPTION]
    ELSE LET h0 == [NoHeap EXCEPT !.datum = a.data]
         IN  IF EMPTY_STR(h0.datum)
             THEN [Untouched EXCEPT !.heap = h0,
                                    !.result = INVALID_OBJECT_NAME_EXCEPTION]
             ELSE LET c == text_to_cstring(h0, "datum")
                      parsed == [Untouched EXCEPT
                          !.heap = c.heap,
                          !.calls = <<"text_to_cstring", "stringToQualifiedNameList">>]
                  IN  IF ~listed
                      THEN [parsed EXCEPT !.result = HostInvalidName]
                      ELSE LET looked == [parsed EXCEPT
                                  !.calls = parsed.calls \o
                                     <<"makeRangeVarFromNameList", "RangeVarGetRelid">>,
                                  !.classId = oid]
                           IN  IF ~OidIsValid(oid)
                               THEN [looked EXCEPT
                                        !.result = INVALID_OBJECT_NAME_EXCEPTION]
                               ELSE [looked EXCEPT
                                        !.result = Return(looked.heap.datum)]

ObjectName ==
    /\ fn = "none"
    /\ \E a \in Args(MaxCatLen), listed \in BOOLEAN, oid \in Oids :
          Finish("object_name", a, NUL, dbms_assert_object_name(a, listed, oid))

Next == QualifiedSqlName \/ SimpleSqlName \/ SchemaName \/ ObjectName

Spec == Init /\ [][Next]_vars

(***************************************************************************)
(* Vocabulary of the properties.                                           *)
(***************************************************************************)
Returned == result.kind = "RETURN"
Raised(e) == result = e
Arg == arg.data
Called(f) == fn = f /\ ~arg.isnull
First(s) == s[1]
Last(s) == s[Len(s)]
Content(s) == SubSeq(s, 2, Len(s) - 1)

\* s holds double quotes only as adjacent doubled pairs
RECURSIVE QuotesPaired(_)
QuotesPaired(s) ==
    IF s = <<>> THEN TRUE
    ELSE IF Head(s) # DQ THEN QuotesPaired(Tail(s))
    ELSE Len(s) >= 2 /\ s[2] = DQ /\ QuotesPaired(Tail(Tail(s)))

\* the ASCII letters, digits and the underscore
AsciiNameChars == {"a", "_"}

(***************************************************************************)
(* The grammar of a qualified name, as an automaton over the bytes:        *)
(*   name   ::= ws* part ws* ( '.' ws* part ws* )*                         *)
(*   part   ::= [A-Za-z0-9_]+  |  '"' ( [^"] | '""' )* '"'                 *)
(* start: before a part; word: inside an unquoted part; open: inside a     *)
(* quoted part; quote: on a quote inside a quoted part, which closes it    *)
(* unless another quote follows; after: white space behind a part.         *)
(***************************************************************************)
GrammarStep(st, c) ==
    CASE st = "start" ->
            IF c = " " THEN "start"
            ELSE IF c \in AsciiNameChars THEN "word"
            ELSE IF c = DQ THEN "open" ELSE "bad"
      [] st = "word" ->
            IF c \in AsciiNameChars THEN "word"
            ELSE IF c = " " THEN "after"
            ELSE IF c = DOT THEN "start" ELSE "bad"
      [] st = "open" -> IF c = DQ THEN "quote" ELSE "open"
      [] st = "quote" ->
            IF c = DQ THEN "open"
            ELSE IF c = " " THEN "after"
            ELSE IF c = DOT THEN "start" ELSE "bad"
      [] st = "after" ->
            IF c = " " THEN "after"
            ELSE IF c = DOT THEN "start" ELSE "bad"
      [] OTHER -> "bad"

RECURSIVE GrammarRun(_, _)
GrammarRun(st, s) ==
    IF s = <<>> THEN st ELSE GrammarRun(GrammarStep(st, Head(s)), Tail(s))

IsQualifiedName(s) == GrammarRun("start", s) \in {"word", "quote", "after"}

OnlySpace(s) == \A i \in 1..Len(s) : s[i] = " "

\* the error kind of each guarded check
OwnError(f) ==
    CASE f = "qualified_sql_name" -> ISNOT_QUALIFIED_SQL_NAME_EXCEPTION
      [] f = "simple_sql_name" -> ISNOT_SIMPLE_SQL_NAME_EXCEPTION
      [] f = "schema_name" -> INVALID_SCHEMA_NAME_EXCEPTION
      [] f = "object_name" -> INVALID_OBJECT_NAME_EXCEPTION
      [] OTHER -> NoResult

\* position of the first f in the call log, 0 if f was not called
CallIndex(f) ==
    LET at == {i \in 1..Len(calls) : calls[i] = f}
    IN  IF at = {} THEN 0 ELSE CHOOSE i \in at : \A j \in at : i <= j

(***************************************************************************)
(* C1.  An input of simple_sql_name that begins with a double quote is     *)
(* accepted only if it has at least two bytes, ends with a double quote    *)
(* and holds, between the two, double quotes only in adjacent pairs.       *)
(***************************************************************************)
C1_QuotedAcceptedIsWellFormed ==
    (Called("simple_sql_name") /\ Len(Arg) >= 1 /\ First(Arg) = DQ /\ Returned)
        => /\ Len(Arg) >= 2
           /\ Last(Arg) = DQ
           /\ QuotesPaired(Content(Arg))

(***************************************************************************)
(* C2.  simple_sql_name accepts every input of length >= 2 that starts and *)
(* ends with a double quote and whose content holds double quotes only as  *)
(* doubled pairs, and rejects with NotSimpleSqlName one whose content      *)
(* holds an unpaired double quote.                                         *)
(***************************************************************************)
C2_QuotedPairedIffAccepted ==
    (Called("simple_sql_name") /\ Len(Arg) >= 2 /\ First(Arg) = DQ /\ Last(Arg) = DQ)
        => IF QuotesPaired(Content(Arg))
           THEN Returned
           ELSE Raised(ISNOT_SIMPLE_SQL_NAME_EXCEPTION)

C5_ReturnsInputUnchanged ==
    (fn \in {"qualified_sql_name", "simple_sql_name"} /\ Returned)
        => /\ ~arg.isnull
           /\ result.value = Arg

\* the parser collapsed a doubled quote, and the call returned
C5_Witness ==
    /\ Called("qualified_sql_name")
    /\ Returned
    /\ Len(heap.cstring) < Len(Arg)

(***************************************************************************)
(* C6.  Each of the four guarded checks rejects a null and a zero-length   *)
(* input with its own error kind, before it calls the parser, the          *)
(* validator or any lookup of the host.                                    *)
(***************************************************************************)
C6_NullAndEmptyRejectedFirst ==
    (fn # "none" /\ (arg.isnull \/ Len(Arg) = 0))
        => /\ Raised(OwnError(fn))
           /\ calls = <<>>
           /\ reads = {}

C6_Witness ==
    /\ fn = "object_name"
    /\ ~arg.isnull
    /\ Len(Arg) = 0
    /\ Raised(INVALID_OBJECT_NAME_EXCEPTION)

(***************************************************************************)
(* C7.  qualified_sql_name accepts no input that yields zero name parts    *)
(* (the empty string, a string of white space only).                       *)
(***************************************************************************)
C7_AcceptedHasAPart ==
    fn = "qualified_sql_name" =>
        /\ Returned => Len(names) >= 1
        /\ (arg.isnull \/ OnlySpace(Arg)) => Raised(ISNOT_QUALIFIED_SQL_NAME_EXCEPTION)

(***************************************************************************)
(* C8.  When the parser succeeds, every name part it delimited has         *)
(* non-empty text, quoted parts included.                                  *)
(***************************************************************************)
C8_PartsAreNonEmpty ==
    (fn = "qualified_sql_name" /\ Returned)
        => \A i \in 1..Len(names) : names[i].text # <<>>

C10_ReadsWithinBuffer ==
    (Called("simple_sql_name") /\ Len(Arg) >= 1)
        => /\ reads \subseteq 0..(Len(Arg) - 1)
           /\ \A p \in Char : check_sql_name(Arg \o <<p>>, Len(Arg)).ok = Returned

=============================================================================
